---- MODULE Spec2Model ----
(***************************************************************************)
(* CloudCamera: the offline buffer (client/src/lib/storage.ts), the S3     *)
(* gateway (client/src/lib/s3.ts), the capture and reconciliation paths of *)
(* the Camera component (client/src/components/Camera.tsx) and the App     *)
(* state that drives them (App.tsx, Settings.tsx).                         *)
(*                                                                         *)
(* Strings are sequences of characters over {SP, X}: SP is a whitespace    *)
(* character, X any other character.  A media key `photo_<ms>.jpg` or      *)
(* `video_<ms>.webm` is the pair <<kind, ms>>.                             *)
(***************************************************************************)
EXTENDS Naturals, Sequences, FiniteSets

VARIABLES
    booted,        \* App's mount effects have run
    activeTab,     \* App.activeTab
    isConnected,   \* App.isConnected
    s3Config,      \* App.s3Config
    storedConfig,  \* localStorage['cloud-camera-s3-config']
    buffer,        \* localStorage['cloud-camera-media-buffer']
    remote,        \* names of the objects the bucket holds
    now,           \* the last value Date.getTime() returned
    nClicks,       \* shutter / stop-recording clicks so far
    captures,      \* the capture handlers in flight
    nPasses,       \* uploadBufferedMediaToS3 calls so far
    passes,        \* the uploadBufferedMediaToS3 calls in flight
    lastPass,      \* the uploadBufferedMediaToS3 call that ended last
    lastCapture,   \* what the capture handler that ended last did
    libCall,       \* the last direct call of a storage.ts / s3.ts export
    log,           \* the passes that ended, in order, where they are recorded
    pendingUploads,\* App.pendingUploads, by key
    mediaItems,    \* App.mediaItems, by key
    listing,       \* refreshMediaItems calls waiting for getMediaList
    confirmAction, \* App.confirmAction while the confirmation dialog is open
    confirmed,     \* the keys whose deletion the user has confirmed
    deletion,      \* the last direct call of deleteMediaFromS3
    failing        \* the keys whose put the endpoint refuses for good

vars == <<booted, activeTab, isConnected, s3Config, storedConfig, buffer, remote,
          now, nClicks, captures, nPasses, passes, lastPass, lastCapture, libCall, log,
          pendingUploads, mediaItems, listing, confirmAction, confirmed, deletion,
          failing>>

\* What the capture and reconciliation paths never read: the pending list,
\* the gallery, and the state of the scenarios that follow them.
galleryVars == <<mediaItems, listing, confirmAction, confirmed>>

scenarioVars == <<deletion, failing>>

sideVars == <<pendingUploads, galleryVars, scenarioVars>>

appVars == <<booted, activeTab, isConnected, s3Config, storedConfig, remote,
             now, nClicks, captures, nPasses, passes, lastPass, lastCapture, log,
             sideVars>>

uiVars == <<booted, activeTab, isConnected, s3Config, storedConfig>>

----------------------------------------------------------------------------
(* Bounds *)

MaxClicks == 2

MaxPasses == 2

MaxBuffer == 2
MaxListing == 2

----------------------------------------------------------------------------
(* Strings and String.prototype.trim *)

SP == "sp"

X == "x"

Undefined == <<"undefined">>

RECURSIVE TrimStart(_)
TrimStart(s) ==
    IF s = <<>> THEN <<>>
    ELSE IF Head(s) = SP THEN TrimStart(Tail(s)) ELSE s

RECURSIVE TrimEnd(_)
TrimEnd(s) ==
    IF s = <<>> THEN <<>>
    ELSE IF s[Len(s)] = SP THEN TrimEnd(SubSeq(s, 1, Len(s) - 1)) ELSE s

Trim(s) == TrimEnd(TrimStart(s))

\* JavaScript truthiness of a string-valued property: "" and undefined are falsy.
Truthy(s) == s # <<>> /\ s # Undefined

----------------------------------------------------------------------------
(* S3Config and the completeness check of s3.ts *)

FieldOrder == <<"endpoint", "bucket", "region", "accessKey", "secretKey">>

\* The `if (!config.endpoint.trim() || ... )` of every s3.ts export, evaluated
\* left to right with short-circuit: the first blank field throws the
\* config-incomplete Error; `.trim()` on a missing field throws a TypeError.
RECURSIVE CheckFrom(_, _)
CheckFrom(config, i) ==
    IF i > Len(FieldOrder) THEN "ok"
    ELSE LET v == config[FieldOrder[i]] IN
         IF v = Undefined THEN "TypeError"
         ELSE IF Trim(v) = <<>> THEN "S3 configuration is incomplete"
         ELSE CheckFrom(config, i + 1)

CheckConfigNoTrim(config) ==
    IF \E i \in 1..Len(FieldOrder) : config[FieldOrder[i]] = <<>>
    THEN "S3 configuration is incomplete" ELSE "ok"

CheckConfig(config) == CheckFrom(config, 1)

\* App.tsx useState initial value: four empty strings and no region.
InitialConfig ==
    [endpoint |-> <<>>, bucket |-> <<>>, region |-> Undefined,
     accessKey |-> <<>>, secretKey |-> <<>>]

\* The check of Settings.handleSubmit and App.handleSaveS3Config: no region.
SaveValid(config) ==
    /\ Trim(config.endpoint) # <<>>
    /\ Trim(config.bucket) # <<>>
    /\ Trim(config.accessKey) # <<>>
    /\ Trim(config.secretKey) # <<>>

----------------------------------------------------------------------------
(* MediaItem and the JSON round trip of the buffer *)

Kinds == {"photo", "video"}

\* Date.getTime() values are numbered in the order they first appear.
Keys == Kinds \X (1..MaxClicks)

\* The MediaItem handleTakePhoto / handleToggleRecording build at time t.
\* blob is "Blob" for a Blob object; a video carries a thumbnail data URL.
NewMedia(kind, t) ==
    [key |-> <<kind, t>>,
     type |-> IF kind = "photo" THEN "image/jpeg" ELSE "video/webm",
     date |-> t,
     blob |-> "Blob",
     thumbnail |-> (kind = "video")]

\* JSON.parse(JSON.stringify(item)): a Blob has no enumerable own properties,
\* so it is written as {} and read back as an empty object.
JsonRoundTrip(item) == [item EXCEPT !.blob = "{}"]

Stringify(items) == [i \in 1..Len(items) |-> JsonRoundTrip(items[i])]

\* localStorage.getItem(MEDIA_BUFFER_KEY): null, or the JSON text of an array.
NoBuffer == [present |-> FALSE, items |-> <<>>]

setItem(items) == [present |-> TRUE, items |-> Stringify(items)]

\* `buffer ? JSON.parse(buffer) : []`
getBufferedMedia(buf) == IF buf.present THEN buf.items ELSE <<>>

saveMediaToLocalBuffer(buf, media) ==
    setItem(Append(getBufferedMedia(buf), media))

clearLocalBuffer(buf) == NoBuffer

\* A removal by position: splice(findIndex(...), 1) takes the last item when
\* the key is absent (findIndex gives -1).
removeBySplice(buf, key) ==
    LET b == getBufferedMedia(buf)
        hits == {i \in 1..Len(b) : b[i].key = key}
        at == IF hits = {} THEN Len(b)
              ELSE CHOOSE i \in hits : \A j \in hits : i <= j
    IN setItem([i \in 1..(IF b = <<>> THEN 0 ELSE Len(b) - 1) |->
                   IF i < at THEN b[i] ELSE b[i + 1]])

removeFromLocalBuffer(buf, key) ==
    setItem(SelectSeq(getBufferedMedia(buf), LAMBDA it : it.key # key))

KeysOf(items) == {items[i].key : i \in 1..Len(items)}

CountKey(items, key) == Cardinality({i \in 1..Len(items) : items[i].key = key})

----------------------------------------------------------------------------
(* Direct calls of the exports of storage.ts and s3.ts *)

FieldValues == {<<>>, <<SP>>, <<SP, X, SP>>}

TypedConfigs ==
    [endpoint : FieldValues, bucket : FieldValues, region : FieldValues,
     accessKey : FieldValues, secretKey : FieldValues]

\* The configs the Settings form can produce: validated, region never set.
FormConfigs ==
    {[c EXCEPT !.region = Undefined] : c \in {d \in TypedConfigs : SaveValid(d)}}

LibConfigs == TypedConfigs \cup FormConfigs \cup {InitialConfig}

GatewayOps ==
    {"uploadMediaToS3", "uploadBufferedMediaToS3", "getMediaList", "deleteMediaFromS3"}

NoKey == <<"none", 0>>

\* How the last capture handler ended: the isConnected it saw, its
\* uploadMediaToS3 calls and whether the upload resolved, its
\* saveMediaToLocalBuffer and onAddPendingUpload calls, its toast, and what
\* the buffer read back before and after: unchanged, or grown by the item.
NoCapture ==
    [valid |-> FALSE, connected |-> FALSE, attempts |-> 0, ok |-> FALSE,
     enqueued |-> FALSE, pending |-> 0, toast |-> <<>>,
     appended |-> FALSE, unchanged |-> FALSE]

\* How a pass ended: "rejected" by the config check, "ok" after the loop,
\* "failed" by a throw; the positions whose upload failed; the number of
\* items whose upload succeeded; whether it cleared the buffer; the toast of
\* uploadBufferedMedia's catch.
NoPass ==
    [result |-> "none", failed |-> {}, uploaded |-> 0, cleared |-> FALSE,
     notice |-> "none"]

PassNoticeSilent(result) == "none"

\* uploadBufferedMedia: the catch runs on any throw of uploadBufferedMediaToS3.
PassNotice(result) ==
    IF result = "ok" THEN "none" ELSE "Failed to upload some media items"

NoLibCall ==
    [op |-> "none", key |-> NoKey, config |-> InitialConfig, err |-> "none",
     sends |-> 0, before |-> <<>>, prev |-> <<"none", NoKey>>]

\* An s3.ts export called with `config`, up to its first s3Client.send: the
\* error it throws, and the number of sends it has made.  uploadBufferedMediaToS3
\* is called on the buffered items; with none it goes straight to the clear.
GatewayCall(op, config, items) ==
    LET chk == CheckConfig(config) IN
    IF chk # "ok" THEN [err |-> chk, sends |-> 0, clears |-> FALSE]
    ELSE IF op = "uploadBufferedMediaToS3" /\ items = <<>>
         THEN [err |-> "none", sends |-> 0, clears |-> TRUE]
         ELSE [err |-> "none", sends |-> 1, clears |-> FALSE]

LibSave(media) ==
    /\ Len(getBufferedMedia(buffer)) < MaxBuffer
    /\ buffer' = saveMediaToLocalBuffer(buffer, media)
    /\ libCall' = [NoLibCall EXCEPT !.op = "save", !.key = media.key,
                       !.before = getBufferedMedia(buffer),
                       !.prev = <<libCall.op, libCall.key>>]
    /\ UNCHANGED appVars

LibRemove(key) ==
    /\ buffer' = removeFromLocalBuffer(buffer, key)
    /\ libCall' = [NoLibCall EXCEPT !.op = "remove", !.key = key,
                       !.before = getBufferedMedia(buffer),
                       !.prev = <<libCall.op, libCall.key>>]
    /\ UNCHANGED appVars

LibClear ==
    /\ buffer' = clearLocalBuffer(buffer)
    /\ libCall' = [NoLibCall EXCEPT !.op = "clear",
                       !.before = getBufferedMedia(buffer),
                       !.prev = <<libCall.op, libCall.key>>]
    /\ UNCHANGED appVars

LibGateway(op) ==
    LET r == GatewayCall(op, libCall.config, getBufferedMedia(buffer)) IN
    /\ buffer' = IF r.clears THEN clearLocalBuffer(buffer) ELSE buffer
    /\ libCall' = [NoLibCall EXCEPT !.op = op, !.config = libCall.config,
                       !.err = r.err, !.sends = r.sends,
                       !.before = getBufferedMedia(buffer)]
    /\ UNCHANGED appVars

NoConfirm == [open |-> FALSE, key |-> NoKey, seen |-> {}]

\* deleteMediaFromS3 as a call: the item and config it was given, where it
\* is, how each DeleteObjectCommand ended, and how the call ended.
NoDeletion ==
    [pc |-> "none", key |-> NoKey, type |-> "none", config |-> InitialConfig,
     primary |-> "none", thumbnail |-> "none", order |-> <<>>, result |-> "none"]

\* The gallery is empty, no dialog is open, no deletion was asked for.
GalleryIdle ==
    /\ mediaItems = {}
    /\ listing = 0
    /\ confirmAction = NoConfirm
    /\ confirmed = {}

SideIdle ==
    /\ pendingUploads = <<>>
    /\ GalleryIdle
    /\ deletion = NoDeletion
    /\ failing = {}

AppIdle ==
    /\ booted = FALSE
    /\ activeTab = "camera"
    /\ isConnected = FALSE
    /\ s3Config = InitialConfig
    /\ storedConfig = [present |-> FALSE, value |-> InitialConfig]
    /\ remote = {}
    /\ now = 0
    /\ nClicks = 0
    /\ captures = <<>>
    /\ nPasses = 0
    /\ passes = <<>>
    /\ lastPass = NoPass
    /\ lastCapture = NoCapture
    /\ log = <<>>
    /\ SideIdle

\* The buffer module on its own: any caller, any order of calls.
QueueInit == AppIdle /\ buffer = NoBuffer /\ libCall = NoLibCall

QueueNext ==
    \/ \E k \in Keys : LibSave(NewMedia(k[1], k[2]))
    \/ \E k \in Keys : LibRemove(k)
    \/ LibClear

QueueSpec == QueueInit /\ [][QueueNext]_vars

\* The gateway's exports on their own: the config is the input.
GateInit ==
    /\ AppIdle
    /\ buffer \in {NoBuffer, setItem(<<NewMedia("photo", 1)>>)}
    /\ \E config \in LibConfigs : libCall = [NoLibCall EXCEPT !.config = config]

GateNext == \E op \in GatewayOps : LibGateway(op)

GateSpec == GateInit /\ [][GateNext]_vars

----------------------------------------------------------------------------
(* The application: App state, the capture path and the reconciliation path *)

Tabs == {"camera", "view", "settings"}

ThumbnailKey(key) == <<"video_thumbnail", key[2]>>

PutObjectKeyPerCall(media, call) == <<media.key[1], media.key[2], call>>

\* The Key of the PutObjectCommand for the media file, in the call-th run of
\* the caller: the record's key, whichever run it is.
PutObjectKey(media, call) == media.key

RemoveAt(seq, i) == [j \in 1..(Len(seq) - 1) |-> IF j < i THEN seq[j] ELSE seq[j + 1]]

\* What the Settings form can hold when it is submitted: the four inputs, and
\* the region of the s3Config prop it was initialised from.
FormInputs ==
    {[endpoint |-> <<X>>, bucket |-> <<X>>, accessKey |-> <<X>>, secretKey |-> <<X>>],
     [endpoint |-> <<X>>, bucket |-> <<SP>>, accessKey |-> <<X>>, secretKey |-> <<X>>]}

StoredConfigs ==
    {[endpoint |-> <<X>>, bucket |-> <<X>>, region |-> r,
      accessKey |-> <<X>>, secretKey |-> <<X>>] : r \in {Undefined, <<X>>}}

\* uploadMediaToS3 after its check: a video with a thumbnail puts the thumbnail
\* first, everything else goes straight to the put of the media file.
FirstPhase(media) ==
    IF media.type = "video/webm" /\ media.thumbnail THEN "thumb" ELSE "main"

\* uploadBufferedMediaToS3(items, config) at its first suspension: the loop
\* has called uploadMediaToS3 on the first item.  `tried` lists the keys
\* uploadMediaToS3 was called with, `failed` the positions whose upload failed.
NewPass(items) ==
    [snapshot |-> items, idx |-> 1, phase |-> FirstPhase(items[1]),
     tried |-> <<items[1].key>>, failed |-> {}]

\* Camera.uploadBufferedMedia with the isConnected and s3Config of its render.
\* When the config check throws, the call has ended as the handler returns.
uploadBufferedMedia(connected, config) ==
    LET items == getBufferedMedia(buffer) IN
    IF connected /\ Truthy(config.bucket) /\ Len(items) > 0
    THEN /\ nPasses < MaxPasses
         /\ nPasses' = nPasses + 1
         /\ IF CheckConfig(config) = "ok"
            THEN passes' = Append(passes, NewPass(items)) /\ UNCHANGED lastPass
            ELSE /\ lastPass' = [NoPass EXCEPT !.result = "rejected",
                                                !.notice = PassNotice("rejected")]
                 /\ UNCHANGED passes
    ELSE UNCHANGED <<nPasses, passes, lastPass>>

\* The effect on [isConnected, s3Config]; it runs while Camera is mounted.
CameraEffect(connected, config) ==
    IF connected THEN uploadBufferedMedia(connected, config)
    ELSE UNCHANGED <<nPasses, passes, lastPass>>

\* First render and mount effects: Camera's effect sees the initial config;
\* App's effect loads the stored config, which re-runs Camera's effect.
AppMount ==
    /\ ~booted
    /\ booted' = TRUE
    /\ IF storedConfig.present
       THEN /\ s3Config' = storedConfig.value
            /\ CameraEffect(isConnected, storedConfig.value)
       ELSE /\ UNCHANGED s3Config
            /\ CameraEffect(isConnected, s3Config)
    /\ UNCHANGED <<activeTab, isConnected, storedConfig, buffer, remote, now,
                   nClicks, captures, lastCapture, libCall, log,
                   pendingUploads, scenarioVars>>

\* window 'online': setIsConnected(true); syncPendingUploads does nothing.
Online ==
    /\ booted /\ ~isConnected
    /\ isConnected' = TRUE
    /\ IF activeTab = "camera" THEN CameraEffect(TRUE, s3Config)
       ELSE UNCHANGED <<nPasses, passes, lastPass>>
    /\ UNCHANGED <<booted, activeTab, s3Config, storedConfig, buffer, remote, now,
                   nClicks, captures, lastCapture, libCall, log,
                   pendingUploads, scenarioVars>>

Offline ==
    /\ booted /\ isConnected
    /\ isConnected' = FALSE
    /\ UNCHANGED <<booted, activeTab, s3Config, storedConfig, buffer, remote, now,
                   nClicks, captures, nPasses, passes, lastPass, lastCapture, libCall, log,
                   pendingUploads, scenarioVars>>

\* Navigation: Camera is rendered only on the camera tab, so coming back to it
\* mounts it again and runs its effect.
handleTabChange(tab) ==
    /\ booted /\ tab # activeTab
    /\ activeTab' = tab
    /\ IF tab = "camera" THEN CameraEffect(isConnected, s3Config)
       ELSE UNCHANGED <<nPasses, passes, lastPass>>
    /\ UNCHANGED <<booted, isConnected, s3Config, storedConfig, buffer, remote, now,
                   nClicks, captures, lastCapture, libCall, log,
                   pendingUploads, scenarioVars>>

\* Settings.handleSubmit then App.handleSaveS3Config.  Camera is not mounted
\* on the settings tab, so no effect runs here.
handleSaveS3Config(form) ==
    LET config == [endpoint |-> form.endpoint, bucket |-> form.bucket,
                   region |-> s3Config.region,
                   accessKey |-> form.accessKey, secretKey |-> form.secretKey] IN
    /\ booted /\ activeTab = "settings"
    /\ IF SaveValid(config)
       THEN /\ s3Config' = config
            /\ storedConfig' = [present |-> TRUE, value |-> config]
       ELSE UNCHANGED <<s3Config, storedConfig>>
    /\ UNCHANGED <<booted, activeTab, isConnected, buffer, remote, now,
                   nClicks, captures, nPasses, passes, lastPass, lastCapture, libCall, log,
                   pendingUploads, scenarioVars>>

----------------------------------------------------------------------------
(* Capture: handleTakePhoto and the stop branch of handleToggleRecording *)

\* The click: the handler closes over the isConnected, the s3Config and the
\* onAddPendingUpload (hence App's pendingUploads) of the render and waits for the picture (or the recording and its thumbnail).
\* The handlers modelled are those that pass the isCameraReady early return.
Click(kind) ==
    /\ booted /\ activeTab = "camera"
    /\ nClicks < MaxClicks
    /\ nClicks' = nClicks + 1
    /\ captures' = Append(captures, [kind |-> kind, connected |-> isConnected,
                                     config |-> s3Config, pc |-> "capturing",
                                     t |-> 0, attempts |-> 0,
                                     pendingUploads |-> pendingUploads])
    /\ UNCHANGED <<uiVars, buffer, remote, now, nPasses, passes, lastPass, lastCapture, libCall, log,
                   pendingUploads, galleryVars, scenarioVars>>

\* capturePicture / stopRecording / generateVideoThumbnail rejects.
CaptureReject(i) ==
    /\ i \in 1..Len(captures) /\ captures[i].pc = "capturing"
    /\ captures' = RemoveAt(captures, i)
    /\ UNCHANGED <<uiVars, buffer, remote, now, nClicks, nPasses, passes, lastPass, lastCapture, libCall, log,
                   pendingUploads, galleryVars, scenarioVars>>

KindName(kind) == IF kind = "video" THEN "Video" ELSE "Photo"

\* The three ways a handler ends once the media item is built; a toast is
\* the pair of the kind's name and the rest of the message, <<>> when none
\* is shown.
\* The try: uploadMediaToS3 resolved, nothing else is done.
Uploaded(kind) ==
    [ok |-> TRUE, enqueue |-> FALSE, pending |-> 0, toast |-> <<>>]

BufferedAfterFailureOfflineToast(kind) ==
    [ok |-> FALSE, enqueue |-> TRUE, pending |-> 1,
     toast |-> <<KindName(kind), "saved locally. Will upload when connected.">>]

\* The catch: save, onAddPendingUpload, toast.
BufferedAfterFailure(kind) ==
    [ok |-> FALSE, enqueue |-> TRUE, pending |-> 1,
     toast |-> <<KindName(kind), "will be uploaded when connection is available">>]

\* The else: save, onAddPendingUpload, toast.
BufferedOffline(kind) ==
    [ok |-> FALSE, enqueue |-> TRUE, pending |-> 1,
     toast |-> <<KindName(kind), "saved locally. Will upload when connected.">>]

\* The onAddPendingUpload prop of the render the handler was created in:
\* setPendingUploads([...pendingUploads, media]) with that render's list.
onAddPendingUpload(seen, media) == Append(seen, media.key)

\* The end of a capture handler that built its media item: `attempts` counts
\* its uploadMediaToS3 calls, `out` is the branch it ended in.
Settle(i, media, attempts, out) ==
    /\ captures' = RemoveAt(captures, i)
    /\ buffer' = IF out.enqueue THEN saveMediaToLocalBuffer(buffer, media) ELSE buffer
    /\ lastCapture' =
           [valid |-> TRUE, connected |-> captures[i].connected,
            attempts |-> attempts, ok |-> out.ok, enqueued |-> out.enqueue,
            pending |-> out.pending, toast |-> out.toast,
            appended |-> (getBufferedMedia(buffer') =
                             Append(getBufferedMedia(buffer), JsonRoundTrip(media))),
            unchanged |-> (getBufferedMedia(buffer') = getBufferedMedia(buffer))]

CaptureResolveAlwaysUpload(i, t) ==
    LET c == captures[i]
        media == NewMedia(c.kind, t) IN
    /\ c.pc = "capturing"
    /\ now' = t
    /\ IF Truthy(c.config.bucket)
       THEN IF CheckConfig(c.config) # "ok"
            THEN Settle(i, media, 1, BufferedAfterFailure(c.kind))
            ELSE /\ captures' = [captures EXCEPT ![i].pc = FirstPhase(media),
                                                 ![i].t = t, ![i].attempts = 1]
                 /\ UNCHANGED <<buffer, lastCapture>>
       ELSE Settle(i, media, 0, BufferedOffline(c.kind))
    /\ UNCHANGED <<uiVars, remote, nClicks, nPasses, passes, lastPass, libCall, log,
                   galleryVars, scenarioVars>>

\* The media item is built at time t and routed: `isConnected && s3Config.bucket`.
\* uploadMediaToS3 is called once; when its config check throws, the catch
\* runs in the same turn.
CaptureResolve(i, t) ==
    LET c == captures[i]
        media == NewMedia(c.kind, t) IN
    /\ c.pc = "capturing"
    /\ now' = t
    /\ IF c.connected /\ Truthy(c.config.bucket)
       THEN IF CheckConfig(c.config) # "ok"
            THEN Settle(i, media, 1, BufferedAfterFailure(c.kind))
            ELSE /\ captures' = [captures EXCEPT ![i].pc = FirstPhase(media),
                                                 ![i].t = t, ![i].attempts = 1]
                 /\ UNCHANGED <<buffer, lastCapture>>
       ELSE Settle(i, media, 0, BufferedOffline(c.kind))
    /\ UNCHANGED <<uiVars, remote, nClicks, nPasses, passes, lastPass, libCall, log,
                   galleryVars, scenarioVars>>

CaptureUploadOkAlsoBuffers(i) ==
    LET c == captures[i]
        media == NewMedia(c.kind, c.t) IN
    /\ c.pc \in {"thumb", "main"}
    /\ IF c.pc = "thumb"
       THEN /\ remote' = remote \cup {ThumbnailKey(media.key)}
            /\ captures' = [captures EXCEPT ![i].pc = "main"]
            /\ UNCHANGED <<buffer, lastCapture>>
       ELSE /\ remote' = remote \cup {PutObjectKey(media, 0)}
            /\ Settle(i, media, c.attempts, [Uploaded(c.kind) EXCEPT !.enqueue = TRUE])
    /\ UNCHANGED <<uiVars, now, nClicks, nPasses, passes, lastPass, libCall, log,
                   galleryVars, scenarioVars>>

\* A put of the capture's uploadMediaToS3 succeeds.
CaptureUploadOk(i) ==
    LET c == captures[i]
        media == NewMedia(c.kind, c.t) IN
    /\ c.pc \in {"thumb", "main"}
    /\ IF c.pc = "thumb"
       THEN /\ remote' = remote \cup {ThumbnailKey(media.key)}
            /\ captures' = [captures EXCEPT ![i].pc = "main"]
            /\ UNCHANGED <<buffer, lastCapture>>
       ELSE /\ remote' = remote \cup {PutObjectKey(media, 0)}
            /\ Settle(i, media, c.attempts, Uploaded(c.kind))
    /\ UNCHANGED <<uiVars, now, nClicks, nPasses, passes, lastPass, libCall, log,
                   galleryVars, scenarioVars>>

CaptureUploadFailNoNotify(i) ==
    LET c == captures[i]
        media == NewMedia(c.kind, c.t) IN
    /\ c.pc \in {"thumb", "main"}
    /\ Settle(i, media, c.attempts, [BufferedAfterFailure(c.kind) EXCEPT !.pending = 0])
    /\ UNCHANGED <<uiVars, remote, now, nClicks, nPasses, passes, lastPass, libCall, log,
                   galleryVars, scenarioVars>>

CaptureUploadFailRetry(i) ==
    LET c == captures[i]
        media == NewMedia(c.kind, c.t) IN
    /\ c.pc \in {"thumb", "main"}
    /\ IF c.attempts < 2
       THEN /\ captures' = [captures EXCEPT ![i].pc = FirstPhase(media),
                                            ![i].attempts = c.attempts + 1]
            /\ UNCHANGED <<buffer, lastCapture>>
       ELSE Settle(i, media, c.attempts, BufferedAfterFailure(c.kind))
    /\ UNCHANGED <<uiVars, remote, now, nClicks, nPasses, passes, lastPass, libCall, log,
                   galleryVars, scenarioVars>>

\* A put of the capture's uploadMediaToS3 fails: the catch buffers the item.
CaptureUploadFail(i) ==
    LET c == captures[i]
        media == NewMedia(c.kind, c.t) IN
    /\ c.pc \in {"thumb", "main"}
    /\ Settle(i, media, c.attempts, BufferedAfterFailure(c.kind))
    /\ UNCHANGED <<uiVars, remote, now, nClicks, nPasses, passes, lastPass, libCall, log,
                   galleryVars, scenarioVars>>

----------------------------------------------------------------------------
(* Reconciliation: the loop of uploadBufferedMediaToS3 *)

Running(p) == p \in 1..Len(passes)

\* The call ends: with the clear that follows the loop, or with the throw.
EndPass(p, result, failed, cleared) ==
    /\ passes' = RemoveAt(passes, p)
    /\ lastPass' = [result |-> result, failed |-> failed,
                    uploaded |-> Cardinality((1..Len(passes[p].tried)) \ failed),
                    cleared |-> cleared, notice |-> PassNotice(result)]

AdvanceRemoveOnly(p, failedNow) ==
    LET ps == passes[p] IN
    IF ps.idx < Len(ps.snapshot)
    THEN /\ passes' = [passes EXCEPT ![p].idx = ps.idx + 1,
                           ![p].phase = FirstPhase(ps.snapshot[ps.idx + 1]),
                           ![p].tried = Append(ps.tried, ps.snapshot[ps.idx + 1].key),
                           ![p].failed = ps.failed \cup failedNow]
         /\ UNCHANGED <<buffer, lastPass>>
    ELSE /\ buffer' = removeFromLocalBuffer(buffer, ps.snapshot[ps.idx].key)
         /\ EndPass(p, "ok", ps.failed \cup failedNow, FALSE)

\* After item idx is done: the next uploadMediaToS3, or the clear that follows
\* the loop.
Advance(p, failedNow) ==
    LET ps == passes[p] IN
    IF ps.idx < Len(ps.snapshot)
    THEN /\ passes' = [passes EXCEPT ![p].idx = ps.idx + 1,
                           ![p].phase = FirstPhase(ps.snapshot[ps.idx + 1]),
                           ![p].tried = Append(ps.tried, ps.snapshot[ps.idx + 1].key),
                           ![p].failed = ps.failed \cup failedNow]
         /\ UNCHANGED <<buffer, lastPass>>
    ELSE /\ buffer' = clearLocalBuffer(buffer)
         /\ EndPass(p, "ok", ps.failed \cup failedNow, TRUE)

PassUploadOkNoClear(p) ==
    LET ps == passes[p]
        media == ps.snapshot[ps.idx] IN
    /\ Running(p)
    /\ IF ps.phase = "thumb"
       THEN /\ remote' = remote \cup {ThumbnailKey(media.key)}
            /\ passes' = [passes EXCEPT ![p].phase = "main"]
            /\ UNCHANGED <<buffer, lastPass>>
       ELSE /\ remote' = remote \cup {PutObjectKey(media, nPasses)}
            /\ IF ps.idx < Len(ps.snapshot)
               THEN Advance(p, {})
               ELSE EndPass(p, "ok", ps.failed, FALSE) /\ UNCHANGED buffer
    /\ UNCHANGED <<uiVars, now, nClicks, captures, nPasses, lastCapture, libCall,
                   sideVars>>

\* A put of the pass's current uploadMediaToS3 succeeds.
PassUploadOk(p) ==
    LET ps == passes[p]
        media == ps.snapshot[ps.idx] IN
    /\ Running(p)
    /\ IF ps.phase = "thumb"
       THEN /\ remote' = remote \cup {ThumbnailKey(media.key)}
            /\ passes' = [passes EXCEPT ![p].phase = "main"]
            /\ UNCHANGED <<buffer, lastPass>>
       ELSE /\ remote' = remote \cup {PutObjectKey(media, nPasses)}
            /\ Advance(p, {})
    /\ UNCHANGED <<uiVars, now, nClicks, captures, nPasses, lastCapture, libCall,
                   sideVars>>

PassUploadFailSwallowed(p) ==
    /\ Running(p)
    /\ Advance(p, {passes[p].idx})
    /\ UNCHANGED <<uiVars, remote, now, nClicks, captures, nPasses, lastCapture, libCall,
                   sideVars>>

\* A put fails: uploadMediaToS3 throws, the loop is left, the clear is skipped
\* and uploadBufferedMedia's catch shows the notice.
PassUploadFail(p) ==
    /\ Running(p)
    /\ EndPass(p, "failed", passes[p].failed \cup {passes[p].idx}, FALSE)
    /\ UNCHANGED <<uiVars, buffer, remote, now, nClicks, captures, nPasses,
                   lastCapture, libCall,
                   sideVars>>

\* The pending list when capture handler i takes this step: the handler that
\* ends having called onAddPendingUpload sets it, anything else leaves it.
Notify(i) ==
    LET c == captures[i]
        media == NewMedia(c.kind, IF c.pc = "capturing" THEN now' ELSE c.t) IN
    IF Len(captures') < Len(captures) /\ lastCapture'.pending > 0
    THEN pendingUploads' = onAddPendingUpload(c.pendingUploads, media)
    ELSE UNCHANGED pendingUploads

\* The record of a pass that ends in this step: what it was given, what it
\* called uploadMediaToS3 with, how it ended, and the buffer it left.
Record(p) ==
    IF Len(passes') < Len(passes)
    THEN log' = Append(log, [snapshot |-> passes[p].snapshot,
                             tried |-> passes[p].tried,
                             result |-> lastPass'.result,
                             failed |-> lastPass'.failed,
                             left |-> getBufferedMedia(buffer')])
    ELSE UNCHANGED log

----------------------------------------------------------------------------

\* Spec follows captures and reconciliation passes; the pending list and the
\* gallery, which neither of them reads, are followed in LifeSpec and
\* GallerySpec and stay as they start here.
Init ==
    /\ booted = FALSE
    /\ activeTab = "camera"
    /\ isConnected \in BOOLEAN
    /\ s3Config = InitialConfig
    /\ storedConfig \in {[present |-> FALSE, value |-> InitialConfig]}
                        \cup {[present |-> TRUE, value |-> c] : c \in StoredConfigs}
    /\ buffer = NoBuffer
    /\ remote = {}
    /\ now = 0
    /\ nClicks = 0
    /\ captures = <<>>
    /\ nPasses = 0
    /\ passes = <<>>
    /\ lastPass = NoPass
    /\ lastCapture = NoCapture
    /\ libCall = NoLibCall
    /\ log = <<>>
    /\ SideIdle

Next ==
    \/ AppMount /\ UNCHANGED galleryVars
    \/ Online /\ UNCHANGED galleryVars
    \/ Offline /\ UNCHANGED galleryVars
    \/ \E tab \in Tabs : handleTabChange(tab) /\ UNCHANGED galleryVars
    \/ \E form \in FormInputs : handleSaveS3Config(form) /\ UNCHANGED galleryVars
    \/ \E kind \in Kinds : Click(kind)
    \/ \E i \in 1..Len(captures) : CaptureReject(i)
    \/ \E i \in 1..Len(captures), t \in {now, now + 1} \ {0} :
           CaptureResolve(i, t) /\ UNCHANGED pendingUploads
    \/ \E i \in 1..Len(captures) : CaptureUploadOk(i) /\ UNCHANGED pendingUploads
    \/ \E i \in 1..Len(captures) : CaptureUploadFail(i) /\ UNCHANGED pendingUploads
    \/ \E p \in 1..Len(passes) : PassUploadOk(p) /\ UNCHANGED log
    \/ \E p \in 1..Len(passes) : PassUploadFail(p) /\ UNCHANGED log

Spec == Init /\ [][Next]_vars

\* Every put the network is given is answered, with success or with failure.
FairSpec ==
    Spec /\ \A p \in 1..MaxPasses :
                WF_vars((PassUploadOk(p) \/ PassUploadFail(p)) /\ UNCHANGED log)

\* The retry scenario: two items were captured offline (a photo, then a
\* video) with a complete config stored; connectivity comes and goes, the
\* passes it triggers are recorded as they end.
RetryInit ==
    /\ booted = TRUE
    /\ activeTab = "camera"
    /\ isConnected = FALSE
    /\ s3Config \in {c \in StoredConfigs : CheckConfig(c) = "ok"}
    /\ storedConfig = [present |-> TRUE, value |-> s3Config]
    /\ buffer = setItem(<<NewMedia("photo", 1), NewMedia("video", 2)>>)
    /\ remote = {}
    /\ now = 2
    /\ nClicks = 2
    /\ captures = <<>>
    /\ nPasses = 0
    /\ passes = <<>>
    /\ lastPass = NoPass
    /\ lastCapture = [valid |-> TRUE, connected |-> FALSE, attempts |-> 0,
                      ok |-> FALSE, enqueued |-> TRUE, pending |-> 1,
                      toast |-> BufferedOffline("video").toast,
                      appended |-> TRUE, unchanged |-> FALSE]
    /\ libCall = NoLibCall
    /\ log = <<>>
    /\ pendingUploads = <<<<"photo", 1>>, <<"video", 2>>>>
    /\ GalleryIdle
    /\ deletion = NoDeletion
    /\ failing = {}

RetryNext ==
    \/ Online /\ UNCHANGED galleryVars
    \/ Offline /\ UNCHANGED galleryVars
    \/ \E tab \in Tabs : handleTabChange(tab) /\ UNCHANGED galleryVars
    \/ \E p \in 1..Len(passes) : PassUploadOk(p) /\ Record(p)
    \/ \E p \in 1..Len(passes) : PassUploadFail(p) /\ Record(p)

RetrySpec == RetryInit /\ [][RetryNext]_vars

\* The retry scenario on a network that answers every put.
RetryFairSpec ==
    RetrySpec /\ \A p \in 1..MaxPasses :
                     WF_vars((PassUploadOk(p) \/ PassUploadFail(p)) /\ Record(p))

----------------------------------------------------------------------------
(* deleteMediaFromS3 as its caller sees it *)

\* The MediaItems getMediaList can hand to a caller.
ListedMedia == {NewMedia(k[1], k[2]) : k \in Keys}

DeleteIdle == deletion.pc \in {"none", "done"}

\* The call up to its first s3Client.send: the config check throws, or the
\* DeleteObjectCommand for media.key is sent.
deleteMediaFromS3(media, config) ==
    /\ DeleteIdle
    /\ deletion' = IF CheckConfig(config) # "ok"
                   THEN [NoDeletion EXCEPT !.pc = "done", !.key = media.key,
                                           !.type = media.type, !.config = config,
                                           !.result = "rejected"]
                   ELSE [NoDeletion EXCEPT !.pc = "primary", !.key = media.key,
                                           !.type = media.type, !.config = config,
                                           !.order = <<"primary">>]
    /\ UNCHANGED remote

\* The delete of the media file is answered with success; for a video the
\* delete of its thumbnail is sent next.
DeletePrimaryOk ==
    /\ deletion.pc = "primary"
    /\ remote' = remote \ {deletion.key}
    /\ deletion' = IF deletion.type = "video/webm"
                   THEN [deletion EXCEPT !.pc = "thumbnail", !.primary = "ok",
                                         !.order = Append(@, "thumbnail")]
                   ELSE [deletion EXCEPT !.pc = "done", !.primary = "ok",
                                         !.result = "ok"]

\* The delete of the media file fails: the send throws out of the call.
DeletePrimaryFail ==
    /\ deletion.pc = "primary"
    /\ deletion' = [deletion EXCEPT !.pc = "done", !.primary = "failed",
                                    !.result = "failed"]
    /\ UNCHANGED remote

DeleteThumbnailOk ==
    /\ deletion.pc = "thumbnail"
    /\ remote' = remote \ {ThumbnailKey(deletion.key)}
    /\ deletion' = [deletion EXCEPT !.pc = "done", !.thumbnail = "ok", !.result = "ok"]

DeleteThumbnailFailThrows ==
    /\ deletion.pc = "thumbnail"
    /\ deletion' = [deletion EXCEPT !.pc = "done", !.thumbnail = "failed",
                                    !.result = "failed"]
    /\ UNCHANGED remote

\* The delete of the thumbnail fails: the catch warns and the call resolves.
DeleteThumbnailFail ==
    /\ deletion.pc = "thumbnail"
    /\ deletion' = [deletion EXCEPT !.pc = "done", !.thumbnail = "failed",
                                    !.result = "ok"]
    /\ UNCHANGED remote

\* Any caller, any bucket holding some of a photo, a video and its thumbnail.
DeleteInit ==
    /\ booted = FALSE
    /\ activeTab = "camera"
    /\ isConnected = TRUE
    /\ s3Config = InitialConfig
    /\ storedConfig = [present |-> FALSE, value |-> InitialConfig]
    /\ buffer = NoBuffer
    /\ remote \in SUBSET {<<"photo", 1>>, <<"video", 2>>, ThumbnailKey(<<"video", 2>>)}
    /\ now = 0
    /\ nClicks = 0
    /\ captures = <<>>
    /\ nPasses = 0
    /\ passes = <<>>
    /\ lastPass = NoPass
    /\ lastCapture = NoCapture
    /\ libCall = NoLibCall
    /\ log = <<>>
    /\ SideIdle

deleteVars == <<booted, activeTab, isConnected, s3Config, storedConfig, buffer, now,
                nClicks, captures, nPasses, passes, lastPass, lastCapture, libCall,
                log, pendingUploads, galleryVars, failing>>

DeleteNext ==
    \/ \E media \in ListedMedia, config \in StoredConfigs :
           deleteMediaFromS3(media, config) /\ UNCHANGED deleteVars
    \/ DeletePrimaryOk /\ UNCHANGED deleteVars
    \/ DeletePrimaryFail /\ UNCHANGED deleteVars
    \/ DeleteThumbnailOk /\ UNCHANGED deleteVars
    \/ DeleteThumbnailFail /\ UNCHANGED deleteVars

DeleteSpec == DeleteInit /\ [][DeleteNext]_vars

----------------------------------------------------------------------------
(* The gallery: refreshMediaItems and the deletion of an item *)

\* refreshMediaItems(config): nothing when one of the four fields is blank;
\* getMediaList throws before its send when the config fails its own check,
\* and the catch leaves mediaItems alone; otherwise the list is asked for.
refreshMediaItems(config) ==
    IF SaveValid(config) /\ CheckConfig(config) = "ok"
    THEN /\ listing < MaxListing
         /\ listing' = listing + 1
         /\ UNCHANGED <<mediaItems, confirmAction, confirmed>>
    ELSE UNCHANGED galleryVars

\* What handleTabChange does to the gallery.
RefreshOnView(tab) ==
    IF tab = "view" /\ Truthy(s3Config.bucket)
    THEN refreshMediaItems(s3Config)
    ELSE UNCHANGED galleryVars

\* getMediaList's mainObjects: the listed keys without "_thumbnail".
MainObjects(objects) == {o \in objects : o[1] \in Kinds}

\* ListObjectsV2 is answered: setMediaItems(items).
ListOk ==
    /\ listing > 0
    /\ listing' = listing - 1
    /\ mediaItems' = MainObjects(remote)
    /\ UNCHANGED <<confirmAction, confirmed>>

\* ListObjectsV2 fails: the catch shows the error, mediaItems stays.
ListFail ==
    /\ listing > 0
    /\ listing' = listing - 1
    /\ UNCHANGED <<mediaItems, confirmAction, confirmed>>

\* An item of the gallery is opened and its delete button pressed: the
\* dialog opens on an action that closes over this render's mediaItems.
handleDeleteMedia(key) ==
    /\ booted /\ activeTab = "view"
    /\ key \in mediaItems
    /\ ~confirmAction.open
    /\ confirmAction' = [open |-> TRUE, key |-> key, seen |-> mediaItems]
    /\ UNCHANGED <<mediaItems, listing, confirmed>>

\* The dialog's onConfirm runs the action: the item is filtered out of the
\* list the action closed over; no request is made to the bucket.
ConfirmDelete ==
    /\ confirmAction.open
    /\ mediaItems' = confirmAction.seen \ {confirmAction.key}
    /\ confirmed' = confirmed \cup {confirmAction.key}
    /\ confirmAction' = NoConfirm
    /\ UNCHANGED listing

CancelDelete ==
    /\ confirmAction.open
    /\ confirmAction' = NoConfirm
    /\ UNCHANGED <<mediaItems, listing, confirmed>>

\* The app is up with a complete config; the bucket holds a photo, and a
\* video with its thumbnail.
GalleryInit ==
    /\ booted = TRUE
    /\ activeTab = "camera"
    /\ isConnected \in BOOLEAN
    /\ s3Config \in StoredConfigs
    /\ storedConfig = [present |-> TRUE, value |-> s3Config]
    /\ buffer = NoBuffer
    /\ remote = {<<"photo", 1>>, <<"video", 2>>, ThumbnailKey(<<"video", 2>>)}
    /\ now = 2
    /\ nClicks = 2
    /\ captures = <<>>
    /\ nPasses = 0
    /\ passes = <<>>
    /\ lastPass = NoPass
    /\ lastCapture = NoCapture
    /\ libCall = NoLibCall
    /\ log = <<>>
    /\ SideIdle

restVars == <<booted, activeTab, isConnected, s3Config, storedConfig, buffer, remote,
              now, nClicks, captures, nPasses, passes, lastPass, lastCapture, libCall,
              log, pendingUploads, scenarioVars>>

GalleryNext ==
    \/ Online /\ UNCHANGED galleryVars
    \/ Offline /\ UNCHANGED galleryVars
    \/ \E tab \in Tabs : handleTabChange(tab) /\ RefreshOnView(tab)
    \/ ListOk /\ UNCHANGED restVars
    \/ ListFail /\ UNCHANGED restVars
    \/ \E key \in Keys : handleDeleteMedia(key) /\ UNCHANGED restVars
    \/ ConfirmDelete /\ UNCHANGED restVars
    \/ CancelDelete /\ UNCHANGED restVars

GallerySpec == GalleryInit /\ [][GalleryNext]_vars

----------------------------------------------------------------------------
(* The life of the page: the pending list, and the page going away *)

\* The page is closed or reloaded: every handler in flight and all React
\* state are gone, localStorage and the bucket are what they were.  The next
\* load starts from the useState initialisers.
Crash ==
    /\ booted
    /\ booted' = FALSE
    /\ activeTab' = "camera"
    /\ isConnected' \in BOOLEAN
    /\ s3Config' = InitialConfig
    /\ captures' = <<>>
    /\ passes' = <<>>
    /\ pendingUploads' = <<>>
    /\ mediaItems' = {}
    /\ listing' = 0
    /\ confirmAction' = NoConfirm
    /\ UNCHANGED <<storedConfig, buffer, remote, now, nClicks, nPasses, lastPass,
                   lastCapture, libCall, log, confirmed, scenarioVars>>

LifeNext ==
    \/ AppMount /\ UNCHANGED galleryVars
    \/ Online /\ UNCHANGED galleryVars
    \/ Offline /\ UNCHANGED galleryVars
    \/ \E tab \in Tabs : handleTabChange(tab) /\ UNCHANGED galleryVars
    \/ \E form \in FormInputs : handleSaveS3Config(form) /\ UNCHANGED galleryVars
    \/ \E kind \in Kinds : Click(kind)
    \/ \E i \in 1..Len(captures) : CaptureReject(i)
    \/ \E i \in 1..Len(captures), t \in {now, now + 1} \ {0} :
           CaptureResolve(i, t) /\ Notify(i)
    \/ \E i \in 1..Len(captures) : CaptureUploadOk(i) /\ Notify(i)
    \/ \E i \in 1..Len(captures) : CaptureUploadFail(i) /\ Notify(i)
    \/ \E p \in 1..Len(passes) : PassUploadOk(p) /\ UNCHANGED log
    \/ \E p \in 1..Len(passes) : PassUploadFail(p) /\ UNCHANGED log
    \/ Crash

\* The application with its pending list, closed and reopened at any time.
LifeSpec == Init /\ [][LifeNext]_vars

----------------------------------------------------------------------------
(* Reconciliation against an endpoint that refuses one record for good *)

StarveItems == <<NewMedia("photo", 1), NewMedia("video", 2)>>

\* The put the pass is waiting for belongs to a refused record.
Refused(p) == passes[p].snapshot[passes[p].idx].key \in failing

\* No pass is running: the count of uploadBufferedMediaToS3 calls, which
\* only bounds the passes in flight together, starts again.
NextRound ==
    /\ passes = <<>> /\ nPasses > 0
    /\ nPasses' = 0
    /\ UNCHANGED <<uiVars, buffer, remote, now, nClicks, captures, passes, lastPass,
                   lastCapture, libCall, log, sideVars>>

\* The retry scenario, with one of the two buffered records refused.
StarveInit ==
    /\ booted = TRUE
    /\ activeTab = "camera"
    /\ isConnected = FALSE
    /\ s3Config \in {c \in StoredConfigs : CheckConfig(c) = "ok"}
    /\ storedConfig = [present |-> TRUE, value |-> s3Config]
    /\ buffer = setItem(StarveItems)
    /\ remote = {}
    /\ now = 2
    /\ nClicks = 2
    /\ captures = <<>>
    /\ nPasses = 0
    /\ passes = <<>>
    /\ lastPass = NoPass
    /\ lastCapture = NoCapture
    /\ libCall = NoLibCall
    /\ log = <<>>
    /\ pendingUploads = <<StarveItems[1].key, StarveItems[2].key>>
    /\ GalleryIdle
    /\ deletion = NoDeletion
    /\ \E bad \in KeysOf(StarveItems) : failing = {bad}

\* The endpoint answers the put pass p is waiting for.
StarveStep(p) ==
    \/ ~Refused(p) /\ PassUploadOk(p) /\ UNCHANGED log
    \/ Refused(p) /\ PassUploadFail(p) /\ UNCHANGED log

StarveNext ==
    \/ Online /\ UNCHANGED galleryVars
    \/ Offline /\ UNCHANGED galleryVars
    \/ \E tab \in Tabs : handleTabChange(tab) /\ UNCHANGED galleryVars
    \/ \E p \in 1..Len(passes) : StarveStep(p)
    \/ NextRound

\* Every put is answered.
StarveSpec ==
    /\ StarveInit /\ [][StarveNext]_vars
    /\ \A p \in 1..MaxPasses : WF_vars(Running(p) /\ StarveStep(p))

----------------------------------------------------------------------------
(* Claims about reconciliation and capture *)

\* The positions of a recorded pass whose upload succeeded.
Succeeded(rec) == (1..Len(rec.tried)) \ rec.failed

NotUploaded(rec) ==
    LET keep == {i \in 1..Len(rec.snapshot) : i \notin Succeeded(rec)}
        F[i \in 0..Len(rec.snapshot)] ==
            IF i = 0 THEN <<>>
            ELSE IF i \in keep THEN Append(F[i - 1], rec.snapshot[i]) ELSE F[i - 1]
    IN F[Len(rec.snapshot)]

\* C1: a pass in which some upload failed leaves in the buffer exactly the
\* records of its snapshot whose upload did not succeed.
C1_NoLossOnPartialFailure ==
    \A i \in 1..Len(log) :
        log[i].failed # {} =>
            SelectSeq(log[i].left, LAMBDA it : it.key \in KeysOf(log[i].snapshot))
                = NotUploaded(log[i])

\* C2: a record leaves the buffer only when an upload of its key has
\* succeeded.
C2_RemovedOnlyAfterUpload ==
    [][\A k \in KeysOf(getBufferedMedia(buffer)) :
           k \notin KeysOf(getBufferedMedia(buffer')) => k \in remote']_vars

\* C6: a capture made while isConnected is false is appended to the buffer,
\* which grows by that one record, and uploadMediaToS3 is not called.
C6_OfflineCapture ==
    (lastCapture.valid /\ ~lastCapture.connected) =>
        (lastCapture.enqueued /\ lastCapture.appended /\ lastCapture.attempts = 0)

C6_Witness ==
    /\ lastCapture.valid /\ ~lastCapture.connected
    /\ lastCapture.enqueued /\ lastCapture.appended /\ lastCapture.attempts = 0
    /\ CheckConfig(s3Config) = "ok"
    /\ Len(getBufferedMedia(buffer)) = 1
    /\ remote = {} /\ nPasses = 0

\* C7: with [A, B] buffered and a complete config, every pass that going
\* online starts comes to an end, and a pass in which every upload succeeded
\* has uploaded each record of [A, B] and leaves the buffer empty.
C7_ReconnectionDrains ==
    /\ \A k \in 1..MaxPasses : (nPasses >= k) ~> (Len(log) >= k)
    /\ [](\A i \in 1..Len(log) :
             log[i].result = "ok" =>
                 /\ log[i].tried = [q \in 1..Len(log[i].snapshot) |-> log[i].snapshot[q].key]
                 /\ KeysOf(log[i].snapshot) \subseteq remote
                 /\ log[i].left = <<>>)

C7_Witness ==
    /\ Len(log) = 1 /\ passes = <<>>
    /\ log[1].result = "ok" /\ Len(log[1].snapshot) = 2
    /\ log[1].left = <<>> /\ getBufferedMedia(buffer) = <<>>
    /\ KeysOf(log[1].snapshot) \subseteq remote

\* C8: when a pass over [A, B] uploads A and fails on B, and a later pass
\* over the same [A, B] uploads B, uploadMediaToS3 was called with B's key
\* twice over the two passes and the second pass leaves the buffer empty.
C8_RetryAfterPartialFailure ==
    \A i, j \in 1..Len(log) :
        (/\ i < j
         /\ Len(log[i].snapshot) = 2
         /\ log[i].snapshot[1].key # log[i].snapshot[2].key
         /\ log[j].snapshot = log[i].snapshot
         /\ log[i].result = "failed" /\ log[i].failed = {2}
         /\ \E q \in Succeeded(log[j]) : log[j].tried[q] = log[i].snapshot[2].key)
        => LET B == log[i].snapshot[2].key IN
           /\ Cardinality({q \in 1..Len(log[i].tried) : log[i].tried[q] = B})
                + Cardinality({q \in 1..Len(log[j].tried) : log[j].tried[q] = B}) = 2
           /\ log[j].left = <<>>

C8_Witness ==
    /\ Len(log) = 2
    /\ log[1].result = "failed" /\ log[1].failed = {2}
    /\ log[1].tried = <<<<"photo", 1>>, <<"video", 2>>>>
    /\ log[2].result = "ok" /\ log[2].tried = log[1].tried
    /\ log[2].left = <<>>

\* The objects of the bucket that hold the media file of the record `key`.
PrimaryObjects(key) == {o \in remote : o[1] = key[1] /\ o[2] = key[2]}

\* C11: whatever passes have run, the bucket holds at most one media object
\* for each record key.
C11_RemoteIdempotent == \A k \in Keys : Cardinality(PrimaryObjects(k)) <= 1

C11_Witness ==
    /\ Len(log) = 2
    /\ 1 \in Succeeded(log[1]) /\ 1 \in Succeeded(log[2])
    /\ log[1].tried[1] = log[2].tried[1]
    /\ Cardinality(PrimaryObjects(log[1].tried[1])) = 1

\* C12: the record a pass hands to uploadMediaToS3 is the record that was
\* given to saveMediaToLocalBuffer: same key, type, date and blob.
C12_RecordImmutable ==
    \A p \in 1..Len(passes) :
        LET it == passes[p].snapshot[passes[p].idx] IN
        it = NewMedia(it.key[1], it.key[2])

\* The keys a recorded pass called uploadMediaToS3 with.
TriedKeys(rec) == {rec.tried[q] : q \in 1..Len(rec.tried)}

\* C13: a record whose upload succeeded in a pass is out of the buffer when
\* the pass ends, and no later pass uploads it again.
C13_RemovedOnSuccess ==
    /\ \A i \in 1..Len(log) : \A q \in Succeeded(log[i]) :
           log[i].tried[q] \notin KeysOf(log[i].left)
    /\ \A i, j \in 1..Len(log) : \A q \in Succeeded(log[i]) :
           i < j => log[i].tried[q] \notin TriedKeys(log[j])

\* C14: a pass calls uploadMediaToS3 once for every record of its snapshot,
\* in order, whether or not an earlier upload of the pass failed.
C14_PartialFailureTolerance ==
    \A i \in 1..Len(log) :
        log[i].tried = [q \in 1..Len(log[i].snapshot) |-> log[i].snapshot[q].key]

\* C15: when a pass ends, every record of the buffer that is not in the
\* pass's snapshot is still in the buffer.
C15_EnqueuedDuringPassKept ==
    [][\A p \in 1..Len(passes) :
           passes' = RemoveAt(passes, p) =>
               \A k \in KeysOf(getBufferedMedia(buffer)) \ KeysOf(passes[p].snapshot) :
                   k \in KeysOf(getBufferedMedia(buffer'))]_vars

\* C16: a capture made while connected whose uploadMediaToS3 resolved does
\* not save to the buffer, does not call onAddPendingUpload, and leaves the
\* buffer as it was.
C16_AdmissionOnSuccess ==
    (lastCapture.valid /\ lastCapture.connected /\ lastCapture.ok) =>
        (~lastCapture.enqueued /\ lastCapture.pending = 0 /\ lastCapture.unchanged)

C16_Witness ==
    /\ lastCapture.valid /\ lastCapture.connected /\ lastCapture.ok
    /\ lastCapture.attempts = 1 /\ ~lastCapture.enqueued
    /\ lastCapture.pending = 0 /\ lastCapture.unchanged
    /\ Len(getBufferedMedia(buffer)) = 1
    /\ Cardinality(remote \cap Keys) = 1

\* C17: a capture whose uploadMediaToS3 call failed appends the record to the
\* buffer once and calls onAddPendingUpload once.
C17_AdmissionOnFailure ==
    (lastCapture.valid /\ lastCapture.attempts >= 1 /\ ~lastCapture.ok) =>
        (lastCapture.enqueued /\ lastCapture.appended /\ lastCapture.pending = 1)

C17_Witness ==
    /\ lastCapture.valid /\ lastCapture.connected
    /\ lastCapture.attempts = 1 /\ ~lastCapture.ok
    /\ lastCapture.enqueued /\ lastCapture.appended /\ lastCapture.pending = 1
    /\ CheckConfig(s3Config) = "ok"
    /\ nPasses = 0

\* C18: a capture handler calls uploadMediaToS3 at most once, in flight or
\* ended.
C18_NoInlineRetry ==
    /\ lastCapture.valid => lastCapture.attempts <= 1
    /\ \A i \in 1..Len(captures) : captures[i].attempts <= 1

C18_Witness ==
    /\ nClicks = 1 /\ captures = <<>>
    /\ lastCapture.valid /\ lastCapture.attempts = 1 /\ ~lastCapture.ok
    /\ lastPass.result = "ok" /\ lastPass.uploaded = 1
    /\ getBufferedMedia(buffer) = <<>>

\* The toasts of the else branch.
OfflineNotices == {BufferedOffline(k).toast : k \in Kinds}

EffectRuns ==
    /\ booted' /\ activeTab' = "camera"
    /\ ~booted \/ activeTab # "camera" \/ isConnected' # isConnected \/ s3Config' # s3Config

\* C20: when the effect runs while isConnected is false or the config fails
\* the completeness check, no upload is started, the buffer and the bucket
\* are unchanged and no toast is shown.
C20_ReconciliationGuard ==
    [][(EffectRuns /\ (~isConnected' \/ CheckConfig(s3Config') # "ok"))
          => /\ passes' = passes /\ buffer' = buffer /\ remote' = remote
             /\ nPasses' = nPasses \/ lastPass'.notice = "none"]_vars

\* C21: a capture handler that ends by buffering its item although the
\* config of its render fails the completeness check has not called
\* uploadMediaToS3.
C21_CallersCheckCompleteness ==
    [][\A i \in 1..Len(captures) :
           (/\ captures[i].pc = "capturing"
            /\ CheckConfig(captures[i].config) # "ok"
            /\ captures' = RemoveAt(captures, i)
            /\ buffer' # buffer)
           => lastCapture'.attempts = 0]_vars

\* C22: a pass that ran its loop shows the toast of the catch exactly when
\* an upload of the pass failed.
C22_OneFailureNotice ==
    lastPass.result \in {"ok", "failed"} =>
        /\ lastPass.failed # {} => lastPass.notice = "Failed to upload some media items"
        /\ lastPass.failed = {} => lastPass.notice = "none"

C22_Witness ==
    /\ lastPass.result = "failed" /\ lastPass.uploaded = 1
    /\ lastPass.notice = "Failed to upload some media items"
    /\ nPasses = 1 /\ passes = <<>>

\* C23: a capture handler whose uploadMediaToS3 is waiting for the thumbnail
\* put does not end there: the put of the media file comes next.
C23_BestEffortThumbnail ==
    [][\A i \in 1..Len(captures) :
           captures[i].pc = "thumb" => captures' # RemoveAt(captures, i)]_vars

\* C25: a step in which isConnected becomes true with a non-empty buffer and
\* a config that passes the completeness check starts a pass.
C25_TriggersFirePass ==
    [][(/\ ~isConnected /\ isConnected'
        /\ getBufferedMedia(buffer) # <<>>
        /\ CheckConfig(s3Config') = "ok"
        /\ nPasses < MaxPasses)
       => Len(passes') = Len(passes) + 1]_vars

\* C29: a config that the save validation lets through passes the
\* completeness check of the exports.
C29_SavedConfigComplete ==
    [][storedConfig' # storedConfig => CheckConfig(storedConfig'.value) = "ok"]_vars

\* C9: a pass in which an upload failed does not clear the buffer.
C9_NoClearAfterFailure == lastPass.cleared => lastPass.failed = {}

C9_Witness ==
    /\ lastPass.result = "failed" /\ lastPass.failed = {2} /\ ~lastPass.cleared
    /\ Len(getBufferedMedia(buffer)) = 2

\* C10: at most one pass is in progress at any time.
C10_PassSerialization == Len(passes) <= 1

\* C24: a deleteMediaFromS3 call that sent its deletes ends as the delete of
\* the media file ended, whatever became of the thumbnail's delete, and the
\* thumbnail's delete is sent only after the media file's delete succeeded.
C24_DeleteOutcomeIsPrimary ==
    /\ (deletion.pc = "done" /\ deletion.result # "rejected") =>
           deletion.result = deletion.primary
    /\ (\E n \in 1..Len(deletion.order) : deletion.order[n] = "thumbnail") =>
           /\ deletion.primary = "ok"
           /\ deletion.order = <<"primary", "thumbnail">>

C24_Witness ==
    /\ deletion.pc = "done" /\ deletion.type = "video/webm"
    /\ deletion.primary = "ok" /\ deletion.thumbnail = "failed"
    /\ deletion.result = "ok"
    /\ deletion.key \notin remote /\ ThumbnailKey(deletion.key) \in remote

\* C30: an item whose deletion the user confirmed is no longer in the
\* bucket, and is not in the gallery list, now or after a later refresh.
C30_DeletedStaysDeleted ==
    \A k \in confirmed : k \notin remote /\ k \notin mediaItems

\* C26: when the page goes away while reconciliation passes are running,
\* every record a pass had still to upload, and that the bucket does not
\* hold, is in the buffer the next load reads.
C26_CrashKeepsUnconfirmed ==
    [][(booted /\ ~booted') =>
           \A p \in 1..Len(passes) :
               \A n \in passes[p].idx..Len(passes[p].snapshot) :
                   passes[p].snapshot[n].key \notin remote =>
                       passes[p].snapshot[n].key \in KeysOf(getBufferedMedia(buffer'))]_vars

\* C27: the pending list is as long as the buffer.
C27_PendingMirrorsQueue ==
    Len(pendingUploads) = Len(getBufferedMedia(buffer))

\* C28: when passes keep being triggered, the records the endpoint does not
\* refuse are eventually in the bucket and out of the buffer.
C28_NoStarvation ==
    ([]<>(passes # <<>>)) =>
        <>(\A k \in KeysOf(StarveItems) \ failing :
               k \in remote /\ k \notin KeysOf(getBufferedMedia(buffer)))

----------------------------------------------------------------------------
(* Claims about the exports on their own *)

HasBlankField(config) ==
    \E i \in 1..Len(FieldOrder) :
        /\ config[FieldOrder[i]] # Undefined
        /\ Trim(config[FieldOrder[i]]) = <<>>

\* C3: every gateway export called with a config that has an empty or
\* whitespace-only field throws the config-incomplete error and has made no
\* s3Client.send.
C3_ConfigGate ==
    (libCall.op \in GatewayOps /\ HasBlankField(libCall.config)) =>
        (libCall.err = "S3 configuration is incomplete" /\ libCall.sends = 0)

C3_Witness ==
    /\ libCall.op = "deleteMediaFromS3"
    /\ libCall.config.secretKey = <<SP>>
    /\ \A i \in 1..4 : Trim(libCall.config[FieldOrder[i]]) # <<>>
    /\ libCall.err = "S3 configuration is incomplete"
    /\ libCall.sends = 0

\* C4: the buffer never holds two entries with the same key, so two saves of
\* one record leave one entry for its key.
C4_IdempotentEnqueue ==
    \A k \in Keys : CountKey(getBufferedMedia(buffer), k) <= 1

\* C5: removeFromLocalBuffer of a key the buffer does not hold (a second
\* removal included) raises nothing and leaves getBufferedMedia as it was.
C5_SafeDoubleRemoval ==
    (libCall.op = "remove" /\ libCall.key \notin KeysOf(libCall.before)) =>
        (libCall.err = "none" /\ getBufferedMedia(buffer) = libCall.before)

C5_Witness ==
    /\ libCall.op = "remove"
    /\ libCall.prev = <<"remove", libCall.key>>
    /\ libCall.before # <<>>
    /\ getBufferedMedia(buffer) = libCall.before

====
